---- MODULE Spec2Model ----
(***************************************************************************)
(* Student task tracker (src/app.js): the task lifecycle state machine.    *)
(*                                                                         *)
(* Encoding of JavaScript values.  Instants (epoch milliseconds) and       *)
(* durations are naturals.  The JavaScript value null is encoded as the    *)
(* integer Null, which is below every instant, so that a field holds       *)
(* either an instant or Null.  A property that a record does not have is   *)
(* a field name outside the DOMAIN of the TLA+ record.                     *)
(*                                                                         *)
(* Every Date.now() of the source is a separate read of the wall clock and *)
(* is an input of the action that performs it, drawn from Instants; the    *)
(* wall clock is not monotonic, so any read may return any instant.        *)
(***************************************************************************)
EXTENDS Integers, Sequences, FiniteSets, TLC

\* tasks       the task collection (the module-level array `tasks`)
\* nextId      the number of identifiers makeId() has handed out, plus one
\* formTaskId  the hidden form field els.taskId (NoId when the form adds)
\* last        history: the last command that ran, with the task before it
\* ut, call, hist   the task object of a direct handleStatusChange call, as
\*             TaskTrackerTests.run makes them, the last call and the
\*             snapshots taken after each effective transition
VARIABLES tasks, nextId, formTaskId, last, ut, call, hist

vars == <<tasks, nextId, formTaskId, last, ut, call, hist>>
appVars == <<tasks, nextId, formTaskId, last>>
unitVars == <<ut, call, hist>>

\* ---------------------------------------------------------------- bounds
MaxTime == 1
MaxSpent == 2
MaxIds == 1
MaxPrior == 1
MaxCalls == 3
MaxUnitTime == 3
MaxStored == 1

Instants == 0..MaxTime
UnitInstants == 0..MaxUnitTime
Ids == 1..MaxIds

\* ------------------------------------------------------------ JS values
Null == -1
NoId == 0
\* any value that is not a finite number and not null: NaN, an infinity (which
\* JSON.parse yields for 1e999), a string, a boolean
NotFinite == -2

STATUS_ACTIVE == "active"
STATUS_COMPLETED == "completed"

Titles == {"Essay"}
\* A due date is the text of the date input, kept as what ymd.split("-")
\* followed by Number() yields: a tuple of parts, each one a natural number,
\* or NotFinite for a part that is no integer.  <<>> is the empty text.
DueDates == {<<2026, 11, 4>>}
Priorities == {"medium"}

\* typeof v === "number" && Number.isFinite(v)
IsFiniteNumber(v) == v >= 0

\* Values of the parsed store that are no task objects: the JSON null and a
\* JSON number.  Every other element is an object, a record of the
\* properties it has.
JsNull == [json |-> "null"]
JsNumber == [json |-> "number"]
IsObject(v) == "json" \notin DOMAIN v

\* task[k] = v, adding the property when the object does not have it
SetField(task, k, v) == [x \in DOMAIN task \cup {k} |-> IF x = k THEN v ELSE task[x]]

\* ----------------------------------------------------- lifecycle engine
\* getTaskStatus(task) of an object; a property the object lacks reads as
\* undefined, which is falsy
GetTaskStatus(task) ==
  IF "completed" \in DOMAIN task /\ task.completed THEN STATUS_COMPLETED ELSE STATUS_ACTIVE

\* normalizeTaskMetrics without the test that clears a completed task's session.
NormalizeTaskMetrics_KeepsSession(task, clock) ==
  LET t1 == IF "timeSpentMs" \notin DOMAIN task \/ ~IsFiniteNumber(task.timeSpentMs)
            THEN SetField(task, "timeSpentMs", 0) ELSE task
      t2 == IF "activatedAt" \notin DOMAIN t1 THEN SetField(t1, "activatedAt", Null) ELSE t1
      t3 == IF "completedAt" \notin DOMAIN t2 THEN SetField(t2, "completedAt", Null) ELSE t2
  IN  IF GetTaskStatus(t3) = STATUS_ACTIVE
         /\ (t3.activatedAt = Null \/ ~IsFiniteNumber(t3.activatedAt))
      THEN [t3 EXCEPT !.activatedAt = clock] ELSE t3

\* normalizeTaskMetrics starting the session of every active task afresh.
NormalizeTaskMetrics_RestartsSession(task, clock) ==
  LET t1 == IF "timeSpentMs" \notin DOMAIN task \/ ~IsFiniteNumber(task.timeSpentMs)
            THEN SetField(task, "timeSpentMs", 0) ELSE task
      t2 == IF "activatedAt" \notin DOMAIN t1 THEN SetField(t1, "activatedAt", Null) ELSE t1
      t3 == IF "completedAt" \notin DOMAIN t2 THEN SetField(t2, "completedAt", Null) ELSE t2
      t4 == IF GetTaskStatus(t3) = STATUS_ACTIVE
            THEN [t3 EXCEPT !.activatedAt = clock] ELSE t3
  IN  IF ~IsObject(task) THEN task
      ELSE IF GetTaskStatus(t4) = STATUS_COMPLETED THEN [t4 EXCEPT !.activatedAt = Null]
      ELSE t4

\* normalizeTaskMetrics(task); clock is the value Date.now() returns at line 171
NormalizeTaskMetrics(task, clock) ==
  LET t1 == IF "timeSpentMs" \notin DOMAIN task \/ ~IsFiniteNumber(task.timeSpentMs)
            THEN SetField(task, "timeSpentMs", 0) ELSE task
      t2 == IF "activatedAt" \notin DOMAIN t1 THEN SetField(t1, "activatedAt", Null) ELSE t1
      t3 == IF "completedAt" \notin DOMAIN t2 THEN SetField(t2, "completedAt", Null) ELSE t2
      t4 == IF GetTaskStatus(t3) = STATUS_ACTIVE
               /\ (t3.activatedAt = Null \/ ~IsFiniteNumber(t3.activatedAt))
            THEN [t3 EXCEPT !.activatedAt = clock] ELSE t3
  IN  IF ~IsObject(task) THEN task
      ELSE IF GetTaskStatus(t4) = STATUS_COMPLETED THEN [t4 EXCEPT !.activatedAt = Null]
      ELSE t4

\* The three shapes of handleStatusChange's result, with the properties a
\* shape does not have held at "none" / FALSE.
ResInvalid == [ok |-> FALSE, noop |-> FALSE, status |-> "none", reason |-> "invalid_next_status"]
ResNoop == [ok |-> TRUE, noop |-> TRUE, status |-> "none", reason |-> "none"]
ResStatus(s) == [ok |-> TRUE, noop |-> FALSE, status |-> s, reason |-> "none"]

\* Variants of the definitions below, each with one plausible slip; the
\* properties further down are required to tell them from the originals.
\* Reopening forgets to clear completedAt.
HSC_Reopen_KeepsCompletedAt(task, now) ==
  [task EXCEPT !.completed = FALSE, !.activatedAt = now]

\* Reopening resumes the session at the completion instant, counting the gap.
HSC_Reopen_ResumesSession(task, now) ==
  [task EXCEPT !.completed = FALSE, !.completedAt = Null,
               !.activatedAt = task.completedAt]

\* Completing overwrites the accumulated time with the last session.
HSC_Complete_Overwrites(task, now) ==
  LET delta == now - task.activatedAt
      spent == IF IsFiniteNumber(task.activatedAt) /\ delta > 0
               THEN delta ELSE task.timeSpentMs
  IN  [task EXCEPT !.completed = TRUE, !.timeSpentMs = spent,
                   !.completedAt = now, !.activatedAt = Null]

\* Completing leaves the session open.
HSC_Complete_KeepsActivatedAt(task, now) ==
  LET delta == now - task.activatedAt
      spent == IF IsFiniteNumber(task.activatedAt) /\ delta > 0
               THEN task.timeSpentMs + delta ELSE task.timeSpentMs
  IN  [task EXCEPT !.completed = TRUE, !.timeSpentMs = spent, !.completedAt = now]

\* Completing adds the delta without the delta > 0 guard.
HSC_Complete_NoSkewGuard(task, now) ==
  LET delta == now - task.activatedAt
      spent == IF IsFiniteNumber(task.activatedAt)
               THEN task.timeSpentMs + delta ELSE task.timeSpentMs
  IN  [task EXCEPT !.completed = TRUE, !.timeSpentMs = spent,
                   !.completedAt = now, !.activatedAt = Null]

\* Reopening starts the accumulated time afresh.
HSC_Reopen_ResetsTime(task, now) ==
  [task EXCEPT !.completed = FALSE, !.completedAt = Null, !.activatedAt = now,
               !.timeSpentMs = 0]

\* handleStatusChange, branch nextStatus === STATUS_ACTIVE (task is normalized)
HSC_Reopen(task, now) ==
  [task EXCEPT !.completed = FALSE, !.completedAt = Null, !.activatedAt = now]

\* handleStatusChange, branch nextStatus === STATUS_COMPLETED (task is normalized)
HSC_Complete(task, now) ==
  LET delta == now - task.activatedAt
      spent == IF IsFiniteNumber(task.activatedAt) /\ delta > 0
               THEN task.timeSpentMs + delta ELSE task.timeSpentMs
  IN  [task EXCEPT !.completed = TRUE, !.timeSpentMs = spent,
                   !.completedAt = now, !.activatedAt = Null]

\* handleStatusChange without the no-op return of lines 189-192.
HandleStatusChange_NoNoopCheck(task, nextStatus, now, nowNorm) ==
  IF nextStatus # STATUS_ACTIVE /\ nextStatus # STATUS_COMPLETED
  THEN [task |-> task, res |-> ResInvalid]
  ELSE LET t == NormalizeTaskMetrics(task, nowNorm)
       IN  IF nextStatus = STATUS_ACTIVE
           THEN [task |-> HSC_Reopen(t, now), res |-> ResStatus(STATUS_ACTIVE)]
           ELSE [task |-> HSC_Complete(t, now), res |-> ResStatus(STATUS_COMPLETED)]

\* handleStatusChange without the validation of lines 184-187.
HandleStatusChange_NoValidation(task, nextStatus, now, nowNorm) ==
  IF GetTaskStatus(task) = nextStatus
  THEN [task |-> task, res |-> ResNoop]
  ELSE LET t == NormalizeTaskMetrics(task, nowNorm)
       IN  IF nextStatus = STATUS_ACTIVE
           THEN [task |-> HSC_Reopen(t, now), res |-> ResStatus(STATUS_ACTIVE)]
           ELSE [task |-> HSC_Complete(t, now), res |-> ResStatus(STATUS_COMPLETED)]

\* handleStatusChange(task, nextStatus): now is the read of line 181, nowNorm
\* the read normalizeTaskMetrics makes at line 171 when it needs one.
HandleStatusChange(task, nextStatus, now, nowNorm) ==
  IF nextStatus # STATUS_ACTIVE /\ nextStatus # STATUS_COMPLETED
  THEN [task |-> task, res |-> ResInvalid]
  ELSE IF GetTaskStatus(task) = nextStatus
  THEN [task |-> task, res |-> ResNoop]
  ELSE LET t == NormalizeTaskMetrics(task, nowNorm)
       IN  IF nextStatus = STATUS_ACTIVE
           THEN [task |-> HSC_Reopen(t, now), res |-> ResStatus(STATUS_ACTIVE)]
           ELSE [task |-> HSC_Complete(t, now), res |-> ResStatus(STATUS_COMPLETED)]

Max(a, b) == IF a >= b THEN a ELSE b

\* calcTimeSpentMs without Math.max(0, ...).
CalcTimeSpentMs_NoClamp(task, atTimeMs) ==
  LET base == IF "timeSpentMs" \in DOMAIN task /\ IsFiniteNumber(task.timeSpentMs)
              THEN task.timeSpentMs ELSE 0
      active == IF GetTaskStatus(task) = STATUS_ACTIVE
                   /\ "activatedAt" \in DOMAIN task
                   /\ IsFiniteNumber(task.activatedAt)
                THEN atTimeMs - task.activatedAt ELSE 0
  IN  base + active

\* calcTimeSpentMs(task, atTimeMs).  typeof v === "number" is taken as v being
\* a finite number: the records it is applied to hold no NaN or infinity.
CalcTimeSpentMs(task, atTimeMs) ==
  LET base == IF "timeSpentMs" \in DOMAIN task /\ IsFiniteNumber(task.timeSpentMs)
              THEN task.timeSpentMs ELSE 0
      active == IF GetTaskStatus(task) = STATUS_ACTIVE
                   /\ "activatedAt" \in DOMAIN task
                   /\ IsFiniteNumber(task.activatedAt)
                THEN Max(0, atTimeMs - task.activatedAt) ELSE 0
  IN  base + active

\* createTask opening a session whatever the completed flag says.
NewTask_AlwaysActive(id, data, now) ==
  [id |-> id, title |-> data.title, dueDate |-> data.dueDate,
   priority |-> data.priority, completed |-> data.completed,
   createdAt |-> now, activatedAt |-> now, completedAt |-> Null,
   timeSpentMs |-> 0]

\* createTask(data): the task pushed, with id the identifier makeId() returned
NewTask(id, data, now) ==
  LET task == [id |-> id, title |-> data.title, dueDate |-> data.dueDate,
               priority |-> data.priority, completed |-> data.completed,
               createdAt |-> now, activatedAt |-> Null, completedAt |-> Null,
               timeSpentMs |-> 0]
  IN  IF task.completed THEN [task EXCEPT !.completedAt = now]
                        ELSE [task EXCEPT !.activatedAt = now]

\* updateTask rebuilding the metrics of the task it edits.
UpdatedTask_ResetsTime(t, data, clk) ==
  [t EXCEPT !.title = data.title, !.dueDate = data.dueDate,
            !.priority = data.priority, !.timeSpentMs = 0]

\* updateTask starting a new session of every open task it edits.
UpdatedTask_RestartsSession(t, data, clk) ==
  LET prevStatus == GetTaskStatus(t)
      t1 == [t EXCEPT !.title = data.title, !.dueDate = data.dueDate,
                      !.priority = data.priority, !.completed = data.completed]
      nextStatus == GetTaskStatus(t1)
      t2 == NormalizeTaskMetrics(t1, clk[1])
  IN  IF prevStatus # nextStatus
      THEN HandleStatusChange(t2, nextStatus, clk[2], clk[3]).task
      ELSE IF nextStatus = STATUS_ACTIVE
      THEN [t2 EXCEPT !.activatedAt = clk[2]]
      ELSE t2

\* updateTask replacing the task it edits by a newly created one.
UpdatedTask_Recreates(t, data, clk) == NewTask(t.id, data, clk[1])

\* updateTask(data) on the task t it found: clk[1] is the read of line 171 made
\* by the normalizeTaskMetrics call of line 348, clk[2] the second read of the
\* handler (line 181 when the status changed, line 355 otherwise), clk[3] the
\* read of line 171 made inside handleStatusChange.
UpdatedTask(t, data, clk) ==
  LET prevStatus == GetTaskStatus(t)
      t1 == [t EXCEPT !.title = data.title, !.dueDate = data.dueDate,
                      !.priority = data.priority, !.completed = data.completed]
      nextStatus == GetTaskStatus(t1)
      t2 == NormalizeTaskMetrics(t1, clk[1])
  IN  IF prevStatus # nextStatus
      THEN HandleStatusChange(t2, nextStatus, clk[2], clk[3]).task
      ELSE IF nextStatus = STATUS_ACTIVE
              /\ (t2.activatedAt = Null \/ ~IsFiniteNumber(t2.activatedAt))
      THEN [t2 EXCEPT !.activatedAt = clk[2]]
      ELSE t2

\* ------------------------------------------------------ the application
FormData == [title : Titles, dueDate : DueDates, priority : Priorities,
             completed : BOOLEAN]

\* tasks.find(x => x.id === id): the index of the task, 0 when there is none
FindTask(id) ==
  IF \E i \in DOMAIN tasks : tasks[i].id = id
  THEN CHOOSE i \in DOMAIN tasks :
         tasks[i].id = id /\ \A j \in DOMAIN tasks : tasks[j].id = id => i <= j
  ELSE 0

\* a removal that cuts the collection off at the task
FilterOut_CutsOff(id) == SubSeq(tasks, 1, FindTask(id) - 1)

\* tasks.filter(t => t.id !== id)
FilterOut(id) == SelectSeq(tasks, LAMBDA t : t.id # id)

WithinBounds(ts) == \A i \in DOMAIN ts : ts[i].timeSpentMs <= MaxSpent

\* history: the open session and the accumulated time of a task before a toggle
Session(t) == [activatedAt |-> t.activatedAt, timeSpentMs |-> t.timeSpentMs]

NoTask == [id |-> NoId]
NoCommand == [op |-> "none", id |-> NoId, before |-> NoTask]
NoCall == [target |-> "none", prevTarget |-> "none", now |-> Null,
           before |-> NoTask, res |-> ResNoop]

Init ==
  /\ tasks = <<>>
  /\ nextId = 1
  /\ formTaskId = NoId
  /\ last = NoCommand
  /\ ut = NoTask
  /\ call = NoCall
  /\ hist = <<>>

\* startEdit(id), from the Edit button of a rendered card
StartEdit(id) ==
  /\ FindTask(id) # 0
  /\ formTaskId' = id
  /\ UNCHANGED <<tasks, nextId, last, unitVars>>

\* the Add Assignment and Cancel buttons: resetForm(true)
ResetForm ==
  /\ formTaskId' = NoId
  /\ UNCHANGED <<tasks, nextId, last, unitVars>>

\* submit handler, !isEdit: createTask(data), saveTasks, resetForm, render
SubmitCreate(data, now) ==
  /\ formTaskId = NoId
  /\ nextId <= MaxIds
  /\ tasks' = Append(tasks, NewTask(nextId, data, now))
  /\ nextId' = nextId + 1
  /\ formTaskId' = NoId
  /\ last' = [op |-> "create", id |-> nextId, before |-> NoTask, now |-> now]
  /\ UNCHANGED unitVars

\* The results updateTask can leave in place of task t, over every value its
\* clock reads can return.
UpdateOutcomes(t, data) == {UpdatedTask(t, data, clk) : clk \in [1..3 -> Instants]}

\* updateTask that adds the task it does not find
SubmitEdit_Recreates(data) ==
  /\ formTaskId # NoId
  /\ LET i == FindTask(formTaskId)
     IN  IF i = 0
         THEN /\ \E now \in Instants : tasks' = Append(tasks, NewTask(formTaskId, data, now))
              /\ last' = [op |-> "update", id |-> formTaskId, before |-> NoTask,
                          found |-> FALSE, flip |-> FALSE, data |-> data]
         ELSE \E t \in UpdateOutcomes(tasks[i], data) :
                /\ tasks' = [tasks EXCEPT ![i] = t]
                /\ last' = [op |-> "update", id |-> formTaskId, before |-> NoTask,
                            found |-> TRUE,
                            flip |-> (tasks[i].completed # data.completed),
                            data |-> data]
  /\ WithinBounds(tasks')
  /\ formTaskId' = NoId
  /\ UNCHANGED <<nextId, unitVars>>

\* submit handler, isEdit: updateTask(data), saveTasks, resetForm, render
SubmitEdit(data) ==
  /\ formTaskId # NoId
  /\ LET i == FindTask(formTaskId)
     IN  IF i = 0
         THEN /\ UNCHANGED tasks
              /\ last' = [op |-> "update", id |-> formTaskId, before |-> NoTask,
                          found |-> FALSE, flip |-> FALSE, data |-> data]
         ELSE \E t \in UpdateOutcomes(tasks[i], data) :
                /\ tasks' = [tasks EXCEPT ![i] = t]
                /\ last' = [op |-> "update", id |-> formTaskId, before |-> NoTask,
                            found |-> TRUE,
                            flip |-> (tasks[i].completed # data.completed),
                            data |-> data]
  /\ WithinBounds(tasks')
  /\ formTaskId' = NoId
  /\ UNCHANGED <<nextId, unitVars>>

\* The outcomes of handleStatusChange(t, nextStatus) over every value its
\* clock reads can return, each with the instant line 181 read.
StatusChangeOutcomes(t, nextStatus, clock) ==
  {[out |-> HandleStatusChange(t, nextStatus, now, nowNorm), now |-> now] :
     now \in clock, nowNorm \in clock}

\* toggleComplete(id), from the toggle button or Enter on a rendered card
ToggleComplete(id) ==
  /\ LET i == FindTask(id)
     IN  /\ i # 0
         /\ LET nextStatus == IF tasks[i].completed THEN STATUS_ACTIVE
                                                    ELSE STATUS_COMPLETED
            IN  \E r \in StatusChangeOutcomes(tasks[i], nextStatus, Instants) :
                  /\ tasks' = [tasks EXCEPT ![i] = r.out.task]
                  /\ last' = [op |-> "toggle", id |-> id,
                              before |-> Session(tasks[i]), now |-> r.now,
                              target |-> nextStatus, res |-> r.out.res]
  /\ WithinBounds(tasks')
  /\ UNCHANGED <<nextId, formTaskId, unitVars>>

\* deleteTask(id), from the Delete button of a rendered card
DeleteTask(id) ==
  /\ FindTask(id) # 0
  /\ tasks' = FilterOut(id)
  /\ last' = [op |-> "delete", id |-> id, before |-> NoTask]
  /\ UNCHANGED <<nextId, formTaskId, unitVars>>

\* the Clear all button, confirmed: tasks = [], saveTasks, resetForm(true)
ClearAll ==
  /\ tasks' = <<>>
  /\ formTaskId' = NoId
  /\ last' = [op |-> "clear", id |-> NoId, before |-> NoTask]
  /\ UNCHANGED <<nextId, unitVars>>

Next ==
  \/ \E id \in Ids : StartEdit(id)
  \/ ResetForm
  \/ \E data \in FormData, now \in Instants : SubmitCreate(data, now)
  \/ \E data \in FormData : SubmitEdit(data)
  \/ \E id \in Ids : ToggleComplete(id)
  \/ \E id \in Ids : DeleteTask(id)
  \/ ClearAll

Spec == Init /\ [][Next]_vars

\* ------------------------------------- direct calls of handleStatusChange
\* TaskTrackerTests.run calls handleStatusChange on task objects of its own,
\* with any target and the clock set by the caller.  The objects are those
\* of a well-formed task (as in Tests 1 to 3), with any instants and prior
\* time, and those of a record stored before the metrics fields existed.
UnitTasks ==
  {[id |-> "t", completed |-> FALSE, timeSpentMs |-> T, activatedAt |-> a,
    completedAt |-> Null] : T \in 0..MaxPrior, a \in UnitInstants}
  \cup
  {[id |-> "t", completed |-> TRUE, timeSpentMs |-> T, activatedAt |-> Null,
    completedAt |-> c] : T \in 0..MaxPrior, c \in UnitInstants}
  \cup
  {[id |-> "t", completed |-> b] : b \in BOOLEAN}

Targets == {STATUS_ACTIVE, STATUS_COMPLETED, "bogus"}

Field(t, k) == IF k \in DOMAIN t THEN t[k] ELSE Null

\* history: the status of a task, the instant it entered it and its time
Snap(t, at) ==
  [status |-> GetTaskStatus(t), at |-> at, spent |-> Field(t, "timeSpentMs")]

\* the instant the task object handed to the first call entered its status
EnteredAt(t) ==
  IF t.completed THEN Field(t, "completedAt") ELSE Field(t, "activatedAt")

InitTransition ==
  /\ tasks = <<>>
  /\ nextId = 1
  /\ formTaskId = NoId
  /\ last = NoCommand
  /\ ut \in UnitTasks
  /\ call = NoCall
  /\ hist = <<Snap(ut, EnteredAt(ut))>>

\* handleStatusChange(ut, target)
ApplyStatus(target) ==
  /\ \E r \in StatusChangeOutcomes(ut, target, UnitInstants) :
       /\ ut' = r.out.task
       /\ call' = [target |-> target, prevTarget |-> call.target, now |-> r.now,
                   before |-> ut, res |-> r.out.res]
       /\ hist' = IF r.out.res.ok /\ ~r.out.res.noop
                  THEN Append(hist, Snap(r.out.task, r.now)) ELSE hist
  /\ Len(hist') <= MaxCalls + 1
  /\ UNCHANGED appVars

NextTransition == \E target \in Targets : ApplyStatus(target)

SpecTransition == InitTransition /\ [][NextTransition]_vars

\* -------------------------------------------------------------- calendar
\* A Date object is [y, m, d, hour]: the year, month index (0 for January),
\* day of the month and hour of its local time.  Instants of the epoch clock
\* are counted in hours; days are numbered from 0001-01-01, which is day 1.
HoursPerDay == 24

IsLeap(y) == (y % 4 = 0 /\ y % 100 # 0) \/ y % 400 = 0

DaysInMonth(y, m) ==
  IF m = 2 THEN (IF IsLeap(y) THEN 29 ELSE 28)
  ELSE IF m \in {4, 6, 9, 11} THEN 30 ELSE 31

\* days of year y before its month m
DaysBeforeMonth(y, m) ==
  <<0, 31, 59, 90, 120, 151, 181, 212, 243, 273, 304, 334>>[m]
    + (IF m > 2 /\ IsLeap(y) THEN 1 ELSE 0)

DaysBeforeYear(y) ==
  365 * (y - 1) + ((y - 1) \div 4) - ((y - 1) \div 100) + ((y - 1) \div 400)

\* the number of the local calendar day of a Date
DayOf(dt) == DaysBeforeYear(dt.y) + DaysBeforeMonth(dt.y, dt.m + 1) + dt.d

\* the Date at the start of day number n
DateOfDay(n) ==
  LET Y == CHOOSE Y \in ((n * 400) \div 146097)..(((n * 400) \div 146097) + 2) :
             DaysBeforeYear(Y) < n /\ n <= DaysBeforeYear(Y + 1)
      r == n - DaysBeforeYear(Y)
      M == CHOOSE M \in 1..12 :
             DaysBeforeMonth(Y, M) < r /\ r <= DaysBeforeMonth(Y, M) + DaysInMonth(Y, M)
  IN  [y |-> Y, m |-> M - 1, d |-> r - DaysBeforeMonth(Y, M), hour |-> 0]

\* new Date(y, monthIndex, d): years 0..99 mean 1900..1999, a month index
\* outside 0..11 carries into the year, a day outside the month carries
\* into the neighbouring months.
NewDate(y, monthIndex, d) ==
  LET fy == IF y \in 0..99 THEN 1900 + y ELSE y
      months == fy * 12 + monthIndex
      Y == months \div 12
      M == (months % 12) + 1
  IN  IF d \in 1..DaysInMonth(Y, M) THEN [y |-> Y, m |-> M - 1, d |-> d, hour |-> 0]
      ELSE DateOfDay(DaysBeforeYear(Y) + DaysBeforeMonth(Y, M) + d)

GetFullYear(dt) == dt.y

\* getMonth(): the month index, 0 for January
GetMonth(dt) == dt.m

GetDate(dt) == dt.d

\* A time zone is the span of days [dstFrom, dstTo) whose local midnight is
\* on daylight-saving time, one hour ahead of the zone's standard time.
\* getTime(): hours from the epoch to the local time of the Date.
GetTime(dt, zone) ==
  DayOf(dt) * HoursPerDay + dt.hour
    - (IF zone.dstFrom <= DayOf(dt) /\ DayOf(dt) < zone.dstTo THEN 1 ELSE 0)

\* the null that parseYmd returns in place of a Date
NullDate == [y |-> Null, m |-> 0, d |-> 0, hour |-> 0]

\* parseYmd(ymd): a Date, or NullDate
ParseYmd(ymd) ==
  IF ymd = <<>> THEN NullDate
  ELSE IF Len(ymd) # 3 THEN NullDate
  ELSE LET y == ymd[1]
           m == ymd[2]
           d == ymd[3]
       IN  IF NotFinite \in {y, m, d} THEN NullDate
           ELSE LET dt == NewDate(y, m - 1, d)
                IN  IF GetFullYear(dt) # y \/ GetMonth(dt) # m - 1 \/ GetDate(dt) # d
                    THEN NullDate ELSE dt

StartOfDay(d) == NewDate(GetFullYear(d), GetMonth(d), GetDate(d))

SameDay(a, b) ==
  /\ GetFullYear(a) = GetFullYear(b)
  /\ GetMonth(a) = GetMonth(b)
  /\ GetDate(a) = GetDate(b)

\* Math.round(x / q) for a divisor q > 0: halves round towards +infinity
RoundDiv(x, q) == (2 * x + q) \div (2 * q)

\* diffDays with Math.floor in place of Math.round
DiffDays_Truncates(start, end, zone) ==
  (GetTime(StartOfDay(end), zone) - GetTime(StartOfDay(start), zone)) \div HoursPerDay

DiffDays(start, end, zone) ==
  RoundDiv(GetTime(StartOfDay(end), zone) - GetTime(StartOfDay(start), zone),
           HoursPerDay)

\* ------------------------------------------------ buckets and ordering
\* getCategory without its test for a due date before today
GetCategory_NoOverdue(task, now, zone) ==
  IF task.completed THEN "completed"
  ELSE LET due == ParseYmd(task.dueDate)
       IN  IF due = NullDate THEN "upcoming"
           ELSE LET today == StartOfDay(now)
                    dueStart == StartOfDay(due)
                    daysUntil == DiffDays(today, dueStart, zone)
                IN  IF SameDay(dueStart, today) THEN "today"
                    ELSE IF daysUntil >= 1 /\ daysUntil <= 7 THEN "soon"
                    ELSE "upcoming"

\* getCategory with the "soon" bucket reaching one day further
GetCategory_SoonThroughEight(task, now, zone) ==
  IF task.completed THEN "completed"
  ELSE LET due == ParseYmd(task.dueDate)
       IN  IF due = NullDate THEN "upcoming"
           ELSE LET today == StartOfDay(now)
                    dueStart == StartOfDay(due)
                    daysUntil == DiffDays(today, dueStart, zone)
                IN  IF GetTime(dueStart, zone) < GetTime(today, zone) THEN "overdue"
                    ELSE IF SameDay(dueStart, today) THEN "today"
                    ELSE IF daysUntil >= 1 /\ daysUntil <= 8 THEN "soon"
                    ELSE "upcoming"

\* getCategory(task), with new Date() read as now
GetCategory(task, now, zone) ==
  IF task.completed THEN "completed"
  ELSE LET due == ParseYmd(task.dueDate)
       IN  IF due = NullDate THEN "upcoming"
           ELSE LET today == StartOfDay(now)
                    dueStart == StartOfDay(due)
                    daysUntil == DiffDays(today, dueStart, zone)
                IN  IF GetTime(dueStart, zone) < GetTime(today, zone) THEN "overdue"
                    ELSE IF SameDay(dueStart, today) THEN "today"
                    ELSE IF daysUntil >= 1 /\ daysUntil <= 7 THEN "soon"
                    ELSE "upcoming"

\* The label of getDeadlineInfo is kept as its template, the number put
\* into it (Null when it has none) and the day word ("" when it has none).
Label(text, n, word, cls) == [text |-> text, n |-> n, word |-> word, cls |-> cls]

Abs(x) == IF x < 0 THEN -x ELSE x

DayWord(n) == IF n = 1 THEN "day" ELSE "days"

\* getDeadlineInfo reading the due date before the completed flag
GetDeadlineInfo_DateBeforeDone(task, now, zone) ==
  LET due == ParseYmd(task.dueDate)
  IN  IF due = NullDate THEN Label("Due date invalid", Null, "", "safe")
      ELSE IF task.completed THEN Label("Completed", Null, "", "done")
      ELSE LET today == StartOfDay(now)
               dueStart == StartOfDay(due)
               delta == DiffDays(today, dueStart, zone)
           IN  IF delta < 0
               THEN Label("Overdue by", Abs(delta), DayWord(Abs(delta)), "overdue")
               ELSE IF delta = 0 THEN Label("Due today", Null, "", "warning")
               ELSE IF delta = 1 THEN Label("Due tomorrow", Null, "", "warning")
               ELSE IF delta <= 3 THEN Label("Due in", delta, DayWord(delta), "warning")
               ELSE Label("Due in", delta, DayWord(delta), "safe")

\* getDeadlineInfo(task), with new Date() read as now
GetDeadlineInfo(task, now, zone) ==
  IF task.completed THEN Label("Completed", Null, "", "done")
  ELSE LET due == ParseYmd(task.dueDate)
       IN  IF due = NullDate THEN Label("Due date invalid", Null, "", "safe")
           ELSE LET today == StartOfDay(now)
                    dueStart == StartOfDay(due)
                    delta == DiffDays(today, dueStart, zone)
                IN  IF delta < 0
                    THEN Label("Overdue by", Abs(delta), DayWord(Abs(delta)), "overdue")
                    ELSE IF delta = 0 THEN Label("Due today", Null, "", "warning")
                    ELSE IF delta = 1 THEN Label("Due tomorrow", Null, "", "warning")
                    ELSE IF delta <= 3 THEN Label("Due in", delta, DayWord(delta), "warning")
                    ELSE Label("Due in", delta, DayWord(delta), "safe")

PScore(p) == IF p = "high" THEN 3 ELSE IF p = "medium" THEN 2 ELSE 1

\* a.createdAt || 0
CreatedOrZero(t) ==
  IF "createdAt" \in DOMAIN t /\ IsFiniteNumber(t.createdAt) THEN t.createdAt ELSE 0

\* compareTasks with the priority difference taken the other way round
CompareTasks_LowFirst(a, b, zone) ==
  LET pDiff == PScore(a.priority) - PScore(b.priority)
      ad == ParseYmd(a.dueDate)
      bd == ParseYmd(b.dueDate)
      dDiff == GetTime(StartOfDay(ad), zone) - GetTime(StartOfDay(bd), zone)
      byAge == CreatedOrZero(a) - CreatedOrZero(b)
  IN  IF pDiff # 0 THEN pDiff
      ELSE IF ad # NullDate /\ bd # NullDate
           THEN (IF dDiff # 0 THEN dDiff ELSE byAge)
      ELSE IF ad # NullDate /\ bd = NullDate THEN -1
      ELSE IF ad = NullDate /\ bd # NullDate THEN 1
      ELSE byAge

\* compareTasks without the rule that a dated task precedes an undated one
CompareTasks_UndatedByAge(a, b, zone) ==
  LET pDiff == PScore(b.priority) - PScore(a.priority)
      ad == ParseYmd(a.dueDate)
      bd == ParseYmd(b.dueDate)
      dDiff == GetTime(StartOfDay(ad), zone) - GetTime(StartOfDay(bd), zone)
      byAge == CreatedOrZero(a) - CreatedOrZero(b)
  IN  IF pDiff # 0 THEN pDiff
      ELSE IF ad # NullDate /\ bd # NullDate
           THEN (IF dDiff # 0 THEN dDiff ELSE byAge)
      ELSE IF ad # NullDate /\ bd = NullDate THEN byAge
      ELSE IF ad = NullDate /\ bd # NullDate THEN byAge
      ELSE byAge

\* compareTasks(a, b); the Dates are compared in the zone of the browser
CompareTasks(a, b, zone) ==
  LET pDiff == PScore(b.priority) - PScore(a.priority)
      ad == ParseYmd(a.dueDate)
      bd == ParseYmd(b.dueDate)
      dDiff == GetTime(StartOfDay(ad), zone) - GetTime(StartOfDay(bd), zone)
      byAge == CreatedOrZero(a) - CreatedOrZero(b)
  IN  IF pDiff # 0 THEN pDiff
      ELSE IF ad # NullDate /\ bd # NullDate
           THEN (IF dDiff # 0 THEN dDiff ELSE byAge)
      ELSE IF ad # NullDate /\ bd = NullDate THEN -1
      ELSE IF ad = NullDate /\ bd # NullDate THEN 1
      ELSE byAge

\* Array.prototype.sort(compareTasks) is stable: a task is placed behind
\* every task it does not precede.
RECURSIVE InsertTask(_, _, _)
InsertTask(x, sorted, zone) ==
  IF sorted = <<>> THEN <<x>>
  ELSE IF CompareTasks(sorted[Len(sorted)], x, zone) <= 0 THEN Append(sorted, x)
  ELSE Append(InsertTask(x, SubSeq(sorted, 1, Len(sorted) - 1), zone), sorted[Len(sorted)])

RECURSIVE SortTasks(_, _)
SortTasks(ts, zone) ==
  IF ts = <<>> THEN <<>>
  ELSE InsertTask(ts[Len(ts)], SortTasks(SubSeq(ts, 1, Len(ts) - 1), zone), zone)

Categories == {"overdue", "today", "soon", "upcoming", "completed"}

Sign(x) == IF x < 0 THEN -1 ELSE IF x > 0 THEN 1 ELSE 0

\* buckets[key]: the tasks of category key, in the order of the collection
RECURSIVE TasksUpTo(_, _, _, _)
TasksUpTo(ts, category, key, n) ==
  IF n = 0 THEN <<>>
  ELSE IF category[n] = key THEN Append(TasksUpTo(ts, category, key, n - 1), ts[n])
  ELSE TasksUpTo(ts, category, key, n - 1)

TasksOf(ts, category, key) == TasksUpTo(ts, category, key, Len(ts))

\* render(): every task goes to the bucket of its category, every bucket is
\* sorted, every card shows its category and its deadline label.  The
\* clock is read as now throughout one render.
BoardOf(ts, now, zone) ==
  LET category == [i \in DOMAIN ts |-> GetCategory(ts[i], now, zone)]
  IN
  [cards |-> [i \in DOMAIN ts |->
                [category |-> category[i],
                 deadline |-> GetDeadlineInfo(ts[i], now, zone)]],
   buckets |-> [key \in Categories |->
                  LET sorted == SortTasks(TasksOf(ts, category, key), zone)
                  IN  [i \in DOMAIN sorted |-> sorted[i].id]],
   compared |-> [i \in DOMAIN ts |-> [j \in DOMAIN ts |->
                   Sign(CompareTasks(ts[i], ts[j], zone))]]]

\* render() of the collection
Board(now, zone) == BoardOf(tasks, now, zone)

\* ------------------------------------------- the elapsed-time query
\* calcTimeSpentMs(ut, at), called at any instant between the status
\* changes of a task object; the function has no assignment to its task.
ElapsedQuery(at) ==
  /\ call' = [target |-> "elapsed", prevTarget |-> call.target, now |-> at,
              before |-> ut, res |-> ResNoop, value |-> CalcTimeSpentMs(ut, at)]
  /\ UNCHANGED <<ut, hist, appVars>>

\* handleStatusChange(ut, target) between two queries
StatusCall(target) ==
  /\ \E r \in StatusChangeOutcomes(ut, target, UnitInstants) :
       /\ ut' = r.out.task
       /\ call' = [target |-> target, prevTarget |-> call.target, now |-> r.now,
                   before |-> ut, res |-> r.out.res]
  /\ Field(ut', "timeSpentMs") <= MaxSpent
  /\ UNCHANGED <<hist, appVars>>

NextElapsed ==
  \/ \E at \in UnitInstants : ElapsedQuery(at)
  \/ \E target \in {STATUS_ACTIVE, STATUS_COMPLETED} : StatusCall(target)

SpecElapsed == InitTransition /\ [][NextElapsed]_vars

\* ------------------------------------------------------------ the board
MaxDayOfMonth == 32

\* no daylight saving; and the rule of the United States for 2026, where
\* the midnights of 9 March to 1 November are on daylight-saving time
Zones ==
  {[dstFrom |-> 0, dstTo |-> 0],
   [dstFrom |-> DayOf(NewDate(2026, 2, 9)), dstTo |-> DayOf(NewDate(2026, 10, 2))]}

\* texts of the due-date input: well-formed ones with every day number of
\* a month and beyond, a two-digit year, month numbers 0 and 13; and the
\* empty text, texts with two and four parts and one with a word in it
BoardDueDates ==
  {<<y, m, d>> : y \in {26, 2026}, m \in {0, 2, 10, 11, 13}, d \in 0..MaxDayOfMonth}
    \cup {<<>>, <<2026, 11>>, <<2026, 11, 4, 1>>, <<2026, NotFinite, 4>>}

\* new Date() at a render: the start of 28 October 2026, late on 2 November
\* and the morning of 4 November
BoardNows ==
  {[NewDate(2026, 9, 28) EXCEPT !.hour = 0],
   [NewDate(2026, 10, 2) EXCEPT !.hour = 23],
   [NewDate(2026, 10, 4) EXCEPT !.hour = 9]}

BoardData ==
  [title : Titles, dueDate : BoardDueDates, priority : Priorities, completed : BOOLEAN]

\* the collection holds one task, created by createTask at instant 0
InitBoard ==
  /\ \E data \in BoardData : tasks = <<NewTask(1, data, 0)>>
  /\ nextId = 2
  /\ formTaskId = NoId
  /\ last = NoCommand
  /\ ut = NoTask
  /\ call = NoCall
  /\ hist = <<>>

ShowBoard(now, zone) ==
  /\ last' = [op |-> "render", id |-> NoId, before |-> NoTask, now |-> now,
              zone |-> zone, board |-> Board(now, zone)]
  /\ UNCHANGED <<tasks, nextId, formTaskId, unitVars>>

NextBoard == \E now \in BoardNows, zone \in Zones : ShowBoard(now, zone)

SpecBoard == InitBoard /\ [][NextBoard]_vars

\* ------------------------------------------------- the order of the cards
\* due dates one, two and five days after 28 October 2026, the last of them
\* behind the end of daylight saving; the 30th of February; no due date
OrderDueDates ==
  {<<2026, 10, 29>>, <<2026, 10, 30>>, <<2026, 11, 2>>, <<2026, 2, 30>>, <<>>}

OrderPriorities == {"high", "medium", "low"}

\* the instants at which the three tasks were created
OrderCreated == {0, 1}

OrderData ==
  [title : Titles, dueDate : OrderDueDates, priority : OrderPriorities, completed : {FALSE}]

OrderNow == NewDate(2026, 9, 28)

\* the collection holds three open tasks
InitOrder ==
  /\ \E data \in [1..3 -> OrderData], at \in [1..3 -> OrderCreated] :
       tasks = [i \in 1..3 |-> NewTask(i, data[i], at[i])]
  /\ nextId = 4
  /\ formTaskId = NoId
  /\ last = NoCommand
  /\ ut = NoTask
  /\ call = NoCall
  /\ hist = <<>>

NextOrder == \E zone \in Zones : ShowBoard(OrderNow, zone)

SpecOrder == InitOrder /\ [][NextOrder]_vars

\* ------------------------------------------------- the form and the cards
\* validate(t) without the parseYmd check
Validate_SkipsParse(t) ==
  IF t.title = "" THEN [ok |-> FALSE, message |-> "Title is required."]
  ELSE IF t.dueDate = <<>> THEN [ok |-> FALSE, message |-> "Due date is required."]
  ELSE [ok |-> TRUE, message |-> ""]

\* validate(t)
Validate(t) ==
  IF t.title = "" THEN [ok |-> FALSE, message |-> "Title is required."]
  ELSE IF t.dueDate = <<>> THEN [ok |-> FALSE, message |-> "Due date is required."]
  ELSE IF ParseYmd(t.dueDate) = NullDate
       THEN [ok |-> FALSE, message |-> "Due date is invalid."]
  ELSE [ok |-> TRUE, message |-> ""]

\* what the form can hold at a submit: the title typed or left empty, the
\* due date valid, left empty, or the 30th of February
FormInputs ==
  [title : Titles \cup {""}, dueDate : DueDates \cup {<<>>, <<2026, 2, 30>>},
   priority : Priorities, completed : BOOLEAN]

\* The collection at the start holds a task of an earlier visit, created
\* at instant 0 under an identifier that makeId does not hand out again.
\* The visit leaves that task alone: its cards are not clicked.  One
\* identifier is left to hand out.
KeptId == MaxIds + 1

KeptTask ==
  NewTask(KeptId, [title |-> "Essay", dueDate |-> <<2026, 11, 4>>,
                   priority |-> "medium", completed |-> FALSE], 0)

InitForm ==
  /\ tasks = <<KeptTask>>
  /\ nextId = MaxIds
  /\ formTaskId = NoId
  /\ last = NoCommand
  /\ ut = NoTask
  /\ call = NoCall
  /\ hist = <<>>

\* submit handler, !check.ok: announce(check.message), return
SubmitRejected(data) ==
  /\ ~Validate(data).ok
  /\ last' = [op |-> "rejected", id |-> formTaskId, before |-> NoTask,
              data |-> data, message |-> Validate(data).message]
  /\ UNCHANGED <<tasks, nextId, formTaskId, unitVars>>

\* the submit handler of the form
SubmitForm(data) ==
  IF ~Validate(data).ok THEN SubmitRejected(data)
  ELSE \/ SubmitEdit(data)
       \/ \E now \in Instants : SubmitCreate(data, now)

\* toggleComplete(id) for an id that tasks.find does not find: return
ToggleMissing(id) ==
  /\ FindTask(id) = 0
  /\ last' = [op |-> "toggle", id |-> id, before |-> NoTask, now |-> Null,
              target |-> "none", res |-> ResNoop]
  /\ UNCHANGED <<tasks, nextId, formTaskId, unitVars>>

\* deleteTask(id) for an id that no task has: the filter keeps every task
DeleteMissing(id) ==
  /\ FindTask(id) = 0
  /\ tasks' = FilterOut(id)
  /\ last' = [op |-> "delete", id |-> id, before |-> NoTask]
  /\ UNCHANGED <<nextId, formTaskId, unitVars>>

NextForm ==
  \/ \E id \in Ids : StartEdit(id)
  \/ ResetForm
  \/ \E data \in FormInputs : SubmitForm(data)
  \/ \E id \in Ids : ToggleComplete(id)
  \/ \E id \in Ids : ToggleMissing(id)
  \/ \E id \in Ids : DeleteTask(id)
  \/ \E id \in Ids : DeleteMissing(id)
  \/ ClearAll

SpecForm == InitForm /\ [][NextForm]_vars

\* ------------------------------------------------- the page in use
\* The collection at the start holds two tasks of an earlier visit; the
\* visit can delete them but does not toggle or edit them.  One identifier
\* is left to hand out.  The refresh timer renders at any moment.
LaterTask ==
  NewTask(KeptId + 1, [title |-> "Essay", dueDate |-> <<2026, 11, 4>>,
                       priority |-> "high", completed |-> FALSE], 0)

LiveData ==
  [title : Titles, dueDate : DueDates, priority : {"high"}, completed : BOOLEAN]

\* what an edit submits: the priority may be another one
EditData ==
  [title : Titles, dueDate : DueDates, priority : {"high", "low"}, completed : BOOLEAN]

LiveIds == Ids \cup {KeptId, KeptId + 1}

InitLive ==
  /\ tasks = <<KeptTask, LaterTask>>
  /\ nextId = MaxIds
  /\ formTaskId = NoId
  /\ last = NoCommand
  /\ ut = NoTask
  /\ call = NoCall
  /\ hist = <<>>

\* render() that sorts the collection itself instead of its buckets
Tick_SortsCollection(now, zone) ==
  /\ tasks' = SortTasks(tasks, zone)
  /\ last' = [op |-> "render", id |-> NoId, before |-> NoTask, now |-> now,
              zone |-> zone, board |-> Board(now, zone)]
  /\ UNCHANGED <<nextId, formTaskId, unitVars>>

\* the timer of startAutoUpdateClock fires: render()
Tick(now, zone) ==
  /\ tasks' = tasks
  /\ last' = [op |-> "render", id |-> NoId, before |-> NoTask, now |-> now,
              zone |-> zone, board |-> Board(now, zone)]
  /\ UNCHANGED <<nextId, formTaskId, unitVars>>

NextLive ==
  \/ \E id \in Ids : StartEdit(id)
  \/ ResetForm
  \/ \E data \in LiveData, now \in Instants : SubmitCreate(data, now)
  \/ \E data \in EditData : SubmitEdit(data)
  \/ \E id \in Ids : ToggleComplete(id)
  \/ \E id \in LiveIds : DeleteTask(id)
  \/ ClearAll
  \/ \E now \in BoardNows, zone \in Zones : Tick(now, zone)

SpecLive == InitLive /\ [][NextLive]_vars

\* ------------------------------------------------- the passing of days
\* new Date() at the renders of the interval timer, over the end of
\* daylight saving on 1 November 2026: late on 31 October, the start and the
\* end of 1 November, the start of 2 November, 3 November at nine, the
\* start of 4 November
ClockNows ==
  {[NewDate(2026, 9, 31) EXCEPT !.hour = 23],
   [NewDate(2026, 10, 1) EXCEPT !.hour = 0],
   [NewDate(2026, 10, 1) EXCEPT !.hour = 23],
   [NewDate(2026, 10, 2) EXCEPT !.hour = 0],
   [NewDate(2026, 10, 3) EXCEPT !.hour = 9],
   [NewDate(2026, 10, 4) EXCEPT !.hour = 0]}

\* due dates from the first of these days to eight days after it, the 30th
\* of February and no due date
ClockDueDates ==
  {<<2026, 10, 31>>, <<2026, 11, 1>>, <<2026, 11, 2>>, <<2026, 11, 3>>,
   <<2026, 11, 4>>, <<2026, 11, 8>>, <<2026, 11, 12>>, <<2026, 2, 30>>, <<>>}

ClockData ==
  [title : Titles, dueDate : ClockDueDates, priority : Priorities, completed : BOOLEAN]

\* the collection holds one task and the page is left alone
InitClock ==
  /\ \E data \in ClockData : tasks = <<NewTask(1, data, 0)>>
  /\ nextId = 2
  /\ formTaskId = NoId
  /\ last = NoCommand
  /\ ut = NoTask
  /\ call = NoCall
  /\ hist = <<>>

\* The callback of startAutoUpdateClock: render().  The clock of the
\* machine has moved on since the render before, and its zone is the same;
\* hist keeps what each render showed of the task, and the task as it was.
AutoUpdate(now, zone) ==
  /\ hist # <<>> =>
       /\ zone = hist[Len(hist)].zone
       /\ GetTime(hist[Len(hist)].now, zone) < GetTime(now, zone)
  /\ last' = [op |-> "render", id |-> NoId, before |-> NoTask, now |-> now,
              zone |-> zone, board |-> Board(now, zone)]
  /\ hist' = Append(hist, [now |-> now, zone |-> zone, task |-> tasks[1],
                           category |-> Board(now, zone).cards[1].category])
  /\ UNCHANGED <<tasks, nextId, formTaskId, ut, call>>

NextClock == \E now \in ClockNows, zone \in Zones : AutoUpdate(now, zone)

SpecClock == InitClock /\ [][NextClock]_vars

\* ------------------------------------------------- loading the collection
\* The store holds what an earlier run of this script, or of its version
\* without the metrics fields (same STORAGE_KEY), saved, or what was put
\* there by hand: an array of task records whose metrics fields may be
\* absent, null, not finite, or numbers.  ut is the parsed array; loading
\* (lines 42-44) normalizes each record in place, each with its own clock.
MetricKeys == {"timeSpentMs", "activatedAt", "completedAt"}
StoredValues == {Null, NotFinite} \cup Instants
StoredMetrics == UNION {[K -> StoredValues] : K \in SUBSET MetricKeys}

StoredRecords(id) ==
  {[id |-> id, title |-> "Essay", dueDate |-> <<2026, 11, 4>>, priority |-> "medium",
    completed |-> c, createdAt |-> 0] @@ m : c \in BOOLEAN, m \in StoredMetrics}

StoredArrays ==
  UNION {{a \in [1..n -> UNION {StoredRecords(i) : i \in 1..n}] :
            \A i \in 1..n : a[i].id = i} : n \in 0..MaxStored}

\* for (const t of tasks) normalizeTaskMetrics(t), with clk[i] the clock read
\* made for record i
LoadedTasks(raw, clk) == [i \in DOMAIN raw |-> NormalizeTaskMetrics(raw[i], clk[i])]

InitLoad ==
  /\ tasks = <<>>
  /\ nextId = 1
  /\ formTaskId = NoId
  /\ last = NoCommand
  /\ ut \in StoredArrays
  /\ call = NoCall
  /\ hist = <<>>

\* the page is loaded (or loaded again): lines 42-44
LoadPage ==
  /\ \E clk \in [DOMAIN ut -> Instants] :
       /\ tasks' = LoadedTasks(ut, clk)
       /\ last' = [op |-> "load", id |-> NoId, before |-> NoTask, clk |-> clk]
  /\ UNCHANGED <<nextId, formTaskId, unitVars>>

NextLoad == LoadPage

SpecLoad == InitLoad /\ [][NextLoad]_vars

\* ------------------------------------------------- opening the page
\* What localStorage holds under STORAGE_KEY: nothing, a text JSON.parse
\* throws on, the text of a value that is no array, or the text of an array.
\* ut is [kind, items], items being the elements of the array.
Restrict(f, K) == [k \in K |-> f[k]]

StoredShapes ==
  {{"id"}, {"completed"}, {"id", "dueDate"},
   {"id", "dueDate", "priority", "completed"},
   {"id", "title", "dueDate", "priority", "completed", "createdAt"},
   {"id", "title", "dueDate", "priority", "completed", "createdAt",
    "activatedAt", "completedAt", "timeSpentMs"}}

\* what the task objects of the store were created from: due before, in and
\* after the days of BoardNows, or on the 30th of February
StoreData ==
  [title : Titles,
   dueDate : {<<2026, 10, 30>>, <<2026, 11, 4>>, <<2026, 11, 20>>, <<2026, 2, 30>>},
   priority : Priorities, completed : BOOLEAN]

\* array elements: null, a number, and objects with some or all of the
\* properties of a task
StoreElements ==
  {JsNull, JsNumber}
    \cup {Restrict(NewTask(1, d, 0), K) : d \in StoreData, K \in StoredShapes}

StoreContents ==
  {[kind |-> k, items |-> <<>>] : k \in {"missing", "unparseable", "value"}}
    \cup {[kind |-> "array", items |-> a] :
            a \in UNION {[1..n -> StoreElements] : n \in 0..MaxStored}}

\* loadTasks()
LoadTasks(store) == IF store.kind = "array" THEN store.items ELSE <<>>

\* task.completed, task.dueDate, ... of a value that is not null: a property
\* it lacks reads as undefined, which getCategory, parseYmd, pScore and
\* compareTasks treat like false, the empty text, a low priority and 0.
Props(v) ==
  v @@ [id |-> NoId, completed |-> FALSE, dueDate |-> <<>>, priority |-> "", createdAt |-> 0]

\* getCategory(t) reads t.completed (line 489): a TypeError when t is null
RenderThrows(ts) == \E i \in DOMAIN ts : ts[i] = JsNull

InitStore ==
  /\ tasks = <<>>
  /\ nextId = 1
  /\ formTaskId = NoId
  /\ last = NoCommand
  /\ ut \in StoreContents
  /\ call = NoCall
  /\ hist = <<>>

\* the script runs: tasks = loadTasks(), the normalize loop, init(), render()
OpenPage ==
  /\ \E clk \in [DOMAIN LoadTasks(ut) -> Instants], now \in BoardNows, zone \in Zones :
       LET loaded == LoadedTasks(LoadTasks(ut), clk)
       IN  /\ tasks' = loaded
           /\ last' = IF RenderThrows(loaded)
                      THEN [op |-> "open", id |-> NoId, before |-> NoTask, fault |-> TRUE]
                      ELSE [op |-> "open", id |-> NoId, before |-> NoTask, fault |-> FALSE,
                            board |-> BoardOf([i \in DOMAIN loaded |-> Props(loaded[i])],
                                              now, zone)]
  /\ UNCHANGED <<nextId, formTaskId, unitVars>>

NextStore == OpenPage

SpecStore == InitStore /\ [][NextStore]_vars

\* ------------------------------------------------- saving and loading
\* JSON.parse(JSON.stringify(task)): a number that is not finite is written
\* as null; texts, booleans, null and finite numbers come back as they were.
JsonRoundTrip(task) ==
  [k \in DOMAIN task |->
     IF k \in MetricKeys \cup {"createdAt"} /\ task[k] = NotFinite THEN Null ELSE task[k]]

\* the page is loaded again: the collection is what saveTasks wrote after
\* the last command, parsed and normalized
Reload ==
  /\ \E clk \in [DOMAIN tasks -> Instants] :
       /\ tasks' = LoadedTasks([i \in DOMAIN tasks |-> JsonRoundTrip(tasks[i])], clk)
       /\ last' = [op |-> "reload", id |-> NoId, before |-> NoTask, saved |-> tasks]
  /\ formTaskId' = NoId
  /\ UNCHANGED <<nextId, unitVars>>

\* the tasks created: due within the days of BoardNows, or on the 30th of
\* February
SavedData ==
  [title : Titles, dueDate : {<<2026, 11, 4>>, <<2026, 2, 30>>},
   priority : Priorities, completed : BOOLEAN]

\* tasks are created and toggled, and the page is loaded again, in any order
NextSaved ==
  \/ \E data \in SavedData, now \in Instants : SubmitCreate(data, now)
  \/ \E id \in Ids : ToggleComplete(id)
  \/ Reload

SpecSaved == Init /\ [][NextSaved]_vars

\* ================================================================ claims
\* The task a toggle or an update left in the collection.
LastTask == tasks[FindTask(last.id)]
Toggled(target) == last.op = "toggle" /\ last.target = target
ValidTarget(s) == s = STATUS_ACTIVE \/ s = STATUS_COMPLETED

\* C1 (as claimed): every task of the collection has exactly one of
\* activatedAt and completedAt set, the one its completed flag names.
C1_ExactlyOneTimestamp ==
  \A i \in DOMAIN tasks :
    IF tasks[i].completed
    THEN tasks[i].completedAt # Null /\ tasks[i].activatedAt = Null
    ELSE tasks[i].activatedAt # Null /\ tasks[i].completedAt = Null

\* the lifecycle fields of a task
Metrics(t) == [completed |-> t.completed, activatedAt |-> t.activatedAt,
               completedAt |-> t.completedAt, timeSpentMs |-> t.timeSpentMs]

\* C2 (as claimed): an edit that flips completed leaves the lifecycle fields
\* as an explicit toggle of the task, at some instant, would: completing adds
\* max(0, now - activatedAt) and sets completedAt = now, reopening clears
\* completedAt and sets activatedAt = now.
C2_EditFlipEqualsToggle ==
  [][(last'.op = "update" /\ last'.flip)
     => LET i == FindTask(last'.id)
            target == IF last'.data.completed THEN STATUS_COMPLETED
                                              ELSE STATUS_ACTIVE
        IN  \E now \in Instants, nowNorm \in Instants :
              Metrics(tasks'[i])
                = Metrics(HandleStatusChange(tasks[i], target, now, nowNorm).task)]_vars

\* C3: completing at B a task active since A < B with accumulated time T
\* leaves timeSpentMs = T + (B - A).
C3_CompletionAddsSession ==
  (Toggled(STATUS_COMPLETED) /\ IsFiniteNumber(last.before.activatedAt)
     /\ last.now > last.before.activatedAt)
  => LastTask.timeSpentMs
       = last.before.timeSpentMs + (last.now - last.before.activatedAt)

C3_Witness ==
  /\ Toggled(STATUS_COMPLETED)
  /\ IsFiniteNumber(last.before.activatedAt)
  /\ last.now > last.before.activatedAt
  /\ last.before.timeSpentMs > 0

\* C4: activated at A with time T, completed at B, reopened at C, completed
\* at D, A <= B <= C <= D: timeSpentMs = T + (B - A) + (D - C); the gap
\* C - B adds nothing.
C4_ReopenAccumulates ==
  \A i \in 1..(Len(hist) - 3) :
    LET A == hist[i].at
        B == hist[i + 1].at
        C == hist[i + 2].at
        D == hist[i + 3].at
    IN  (hist[i].status = STATUS_ACTIVE /\ IsFiniteNumber(A)
           /\ A <= B /\ B <= C /\ C <= D)
        => hist[i + 3].spent = hist[i].spent + (B - A) + (D - C)

C4_Witness ==
  /\ Len(hist) >= 4
  /\ hist[1].status = STATUS_ACTIVE
  /\ hist[1].spent > 0
  /\ IsFiniteNumber(hist[1].at)
  /\ hist[1].at < hist[2].at /\ hist[2].at < hist[3].at /\ hist[3].at < hist[4].at

\* C5: completing an Active task at now leaves completed = true,
\* completedAt = now and activatedAt = null.
C5_CompleteSetsFields ==
  Toggled(STATUS_COMPLETED)
  => /\ LastTask.completed
     /\ LastTask.completedAt = last.now
     /\ LastTask.activatedAt = Null

C5_Witness ==
  /\ Toggled(STATUS_COMPLETED)
  /\ last.before.activatedAt # Null
  /\ last.now # last.before.activatedAt

\* C6: reopening a Completed task at now leaves completed = false,
\* completedAt = null, activatedAt = now and timeSpentMs as it was.
C6_ReopenSetsFields ==
  Toggled(STATUS_ACTIVE)
  => /\ ~LastTask.completed
     /\ LastTask.completedAt = Null
     /\ LastTask.activatedAt = last.now
     /\ LastTask.timeSpentMs = last.before.timeSpentMs

C6_Witness ==
  /\ Toggled(STATUS_ACTIVE)
  /\ last.before.activatedAt = Null
  /\ last.before.timeSpentMs > 0

\* C7: a call whose target is the task's status, and so the second of two
\* calls in a row with one target, returns ok with the no-op indicator and
\* leaves the task as it was, whatever the clock reads.
C7_SameStatusIsNoop ==
  (ValidTarget(call.target)
     /\ (GetTaskStatus(call.before) = call.target \/ call.prevTarget = call.target))
  => /\ call.res.ok /\ call.res.noop
     /\ ut = call.before

C7_Witness ==
  /\ call.target = STATUS_COMPLETED
  /\ call.prevTarget = STATUS_COMPLETED
  /\ Len(hist) >= 2
  /\ call.now # hist[Len(hist)].at

\* C8: a call whose target is neither status returns ok = false and leaves
\* the task as it was, in either status.
C8_InvalidTargetRejected ==
  (call.target # "none" /\ ~ValidTarget(call.target))
  => /\ ~call.res.ok
     /\ ut = call.before

C8_Witness ==
  /\ call.target = "bogus"
  /\ ut.completed
  /\ call.prevTarget = "bogus"
  /\ Len(hist) >= 2

\* C9: completing an Active task at an instant not after its activatedAt
\* leaves timeSpentMs as it was.
C9_ClockSkewAddsNothing ==
  (Toggled(STATUS_COMPLETED) /\ IsFiniteNumber(last.before.activatedAt)
     /\ last.now <= last.before.activatedAt)
  => LastTask.timeSpentMs = last.before.timeSpentMs

C9_Witness ==
  /\ Toggled(STATUS_COMPLETED)
  /\ IsFiniteNumber(last.before.activatedAt)
  /\ last.now < last.before.activatedAt
  /\ last.before.timeSpentMs > 0

\* C10: timeSpentMs of every task is never negative; from one step to the
\* next it never decreases, and it changes only in a step that takes the
\* task from Active to Completed.
C10_TimeSpentMonotone ==
  /\ [](\A i \in DOMAIN tasks : tasks[i].timeSpentMs >= 0)
  /\ [][\A i \in DOMAIN tasks : \A j \in DOMAIN tasks' :
          tasks[i].id = tasks'[j].id
          => /\ tasks'[j].timeSpentMs >= tasks[i].timeSpentMs
             /\ (tasks'[j].timeSpentMs # tasks[i].timeSpentMs
                   => ~tasks[i].completed /\ tasks'[j].completed)]_vars

C10_Witness ==
  /\ last.op = "update"
  /\ last.flip
  /\ LastTask.timeSpentMs > 0


\* C11: create at now appends one task, with createdAt = now and
\* timeSpentMs = 0; created completed it has completedAt = now and
\* activatedAt = null, created open it has activatedAt = now and
\* completedAt = null.
C11_CreateSeedsStatus ==
  [][nextId' # nextId
     => /\ Len(tasks') = Len(tasks) + 1
        /\ SubSeq(tasks', 1, Len(tasks)) = tasks
        /\ LET t == tasks'[Len(tasks')]
               now == last'.now
           IN  /\ last'.op = "create"
               /\ t.id = last'.id
               /\ t.createdAt = now
               /\ t.timeSpentMs = 0
               /\ IF t.completed
                  THEN t.completedAt = now /\ t.activatedAt = Null
                  ELSE t.activatedAt = now /\ t.completedAt = Null]_vars

C11_Witness ==
  /\ last.op = "create"
  /\ LastTask.completed
  /\ LastTask.createdAt > 0


\* C12: after normalization timeSpentMs is a finite number, 0 when it was
\* missing or not finite; an Active task has a finite activatedAt, the clock
\* read when it was missing, null or not finite and the old value otherwise;
\* a Completed task has activatedAt = null whatever it was.
C12_NormalizePopulates ==
  last.op = "load"
  => \A i \in DOMAIN tasks :
       LET r == ut[i]
           t == tasks[i]
       IN  /\ IsFiniteNumber(t.timeSpentMs)
           /\ ("timeSpentMs" \notin DOMAIN r \/ r.timeSpentMs \in {Null, NotFinite})
                => t.timeSpentMs = 0
           /\ ~t.completed
                => /\ IsFiniteNumber(t.activatedAt)
                   /\ IF "activatedAt" \in DOMAIN r /\ r.activatedAt \in Instants
                      THEN t.activatedAt = r.activatedAt
                      ELSE t.activatedAt = last.clk[i]
           /\ t.completed => t.activatedAt = Null

C12_Witness ==
  /\ last.op = "load"
  /\ \E i \in DOMAIN tasks :
       /\ tasks[i].completed
       /\ "activatedAt" \in DOMAIN ut[i]
       /\ ut[i].activatedAt \in Instants
       /\ "timeSpentMs" \in DOMAIN ut[i]
       /\ ut[i].timeSpentMs = NotFinite

\* C13 (as claimed): after loading, every record has exactly one of
\* activatedAt and completedAt set, the one its completed flag names.
C13_LoadedMirrorsStatus ==
  last.op = "load"
  => \A i \in DOMAIN tasks :
       IF tasks[i].completed
       THEN tasks[i].completedAt # Null /\ tasks[i].activatedAt = Null
       ELSE tasks[i].activatedAt # Null /\ tasks[i].completedAt = Null


\* C14: the elapsed-time query at instant t returns timeSpentMs for a
\* Completed task and timeSpentMs + max(0, t - activatedAt) for an Active
\* one, and leaves every field of the task as it was.
C14_ElapsedQuery ==
  (call.target = "elapsed" /\ "timeSpentMs" \in DOMAIN ut
     /\ (~ut.completed => IsFiniteNumber(Field(ut, "activatedAt"))))
  => /\ ut = call.before
     /\ call.value =
          IF ut.completed THEN ut.timeSpentMs
          ELSE IF call.now > ut.activatedAt
               THEN ut.timeSpentMs + (call.now - ut.activatedAt)
               ELSE ut.timeSpentMs

C14_Witness ==
  /\ call.target = "elapsed"
  /\ call.prevTarget = STATUS_ACTIVE
  /\ ~ut.completed
  /\ Field(ut, "timeSpentMs") > 0
  /\ IsFiniteNumber(Field(ut, "activatedAt"))
  /\ call.now < Field(ut, "activatedAt")


\* The calendar reading of a due-date text, by the rules of the Gregorian
\* calendar: three whole numbers, a year that is not taken for 19xx, a month
\* of the year and a day of that month.
IsCalendarDate(ymd) ==
  /\ Len(ymd) = 3
  /\ \A k \in 1..3 : ymd[k] >= 0
  /\ ymd[1] >= 100
  /\ ymd[2] \in 1..12
  /\ ymd[3] \in 1..DaysInMonth(ymd[1], ymd[2])

CalendarDay(ymd) == DaysBeforeYear(ymd[1]) + DaysBeforeMonth(ymd[1], ymd[2]) + ymd[3]

\* calendar days from the day of the render to the due date
DaysAhead(t) == CalendarDay(t.dueDate) - DayOf(last.now)

\* C15: a completed task is in bucket completed whatever its due date; an
\* open task is in upcoming when its due date is missing or invalid, else
\* in overdue when due before today, today when due today, soon when due 1
\* to 7 days ahead, upcoming from 8 days ahead; and it is in no other bucket.
C15_BucketOfTask ==
  last.op = "render" =>
    \A i \in DOMAIN tasks :
      LET t == tasks[i]
          c == last.board.cards[i].category
      IN  /\ c = IF t.completed THEN "completed"
                 ELSE IF ~IsCalendarDate(t.dueDate) THEN "upcoming"
                 ELSE IF DaysAhead(t) < 0 THEN "overdue"
                 ELSE IF DaysAhead(t) = 0 THEN "today"
                 ELSE IF DaysAhead(t) <= 7 THEN "soon"
                 ELSE "upcoming"
          /\ \A key \in Categories :
                (\E k \in DOMAIN last.board.buckets[key] :
                   last.board.buckets[key][k] = t.id) <=> key = c

\* a task due seven days ahead, across the end of daylight-saving time
C15_Witness ==
  /\ last.op = "render"
  /\ last.zone.dstTo > DayOf(last.now)
  /\ \E i \in DOMAIN tasks :
       /\ ~tasks[i].completed
       /\ IsCalendarDate(tasks[i].dueDate)
       /\ DaysAhead(tasks[i]) = 7
       /\ CalendarDay(tasks[i].dueDate) >= last.zone.dstTo
       /\ last.board.buckets["soon"] = <<tasks[i].id>>


\* C16: with delta the calendar days from today to the due date, the label
\* is Completed/done for a completed task, Due date invalid/safe for an
\* invalid date, Overdue by |delta| day(s)/overdue for delta < 0, Due
\* today/warning for 0, Due tomorrow/warning for 1, Due in delta
\* days/warning for 2 and 3, Due in delta days/safe from 4; the word is day
\* for exactly 1 and days otherwise.
C16_DeadlineLabel ==
  last.op = "render" =>
    \A i \in DOMAIN tasks :
      LET t == tasks[i]
          info == last.board.cards[i].deadline
          plain(text, cls) == [text |-> text, n |-> Null, word |-> "", cls |-> cls]
          counted(text, n, cls) ==
            [text |-> text, n |-> n, word |-> IF n = 1 THEN "day" ELSE "days", cls |-> cls]
      IN  info = IF t.completed THEN plain("Completed", "done")
                 ELSE IF ~IsCalendarDate(t.dueDate) THEN plain("Due date invalid", "safe")
                 ELSE IF DaysAhead(t) < 0
                      THEN counted("Overdue by", 0 - DaysAhead(t), "overdue")
                 ELSE IF DaysAhead(t) = 0 THEN plain("Due today", "warning")
                 ELSE IF DaysAhead(t) = 1 THEN plain("Due tomorrow", "warning")
                 ELSE IF DaysAhead(t) <= 3 THEN counted("Due in", DaysAhead(t), "warning")
                 ELSE counted("Due in", DaysAhead(t), "safe")

\* a task one day overdue, the clocks having been set back in between
C16_Witness ==
  /\ last.op = "render"
  /\ last.zone.dstTo = DayOf(last.now)
  /\ \E i \in DOMAIN tasks :
       /\ ~tasks[i].completed
       /\ IsCalendarDate(tasks[i].dueDate)
       /\ DaysAhead(tasks[i]) = -1
       /\ last.board.cards[i].deadline.word = "day"


Rank(p) == IF p = "high" THEN 1 ELSE IF p = "medium" THEN 2 ELSE 3

\* the position of task id in the bucket it is shown in
ShownAt(id) ==
  LET b == last.board.buckets[last.board.cards[id].category]
  IN  CHOOSE k \in DOMAIN b : b[k] = id

\* C17: the higher priority comes first; among equal priority the earlier
\* due date, a task with a valid due date before one without; where these
\* do not decide, the earlier createdAt.  Every bucket is shown in that
\* order, and {high, +5}, {high, +2}, {medium, +1} are shown as +2, +5,
\* medium.
C17_CardOrder ==
  last.op = "render" =>
    /\ \A i, j \in DOMAIN tasks :
         LET a == tasks[i]
             b == tasks[j]
             c == last.board.compared[i][j]
             byAge == IF a.createdAt < b.createdAt THEN -1
                      ELSE IF a.createdAt > b.createdAt THEN 1 ELSE 0
         IN  c = IF Rank(a.priority) < Rank(b.priority) THEN -1
                 ELSE IF Rank(a.priority) > Rank(b.priority) THEN 1
                 ELSE IF IsCalendarDate(a.dueDate) /\ ~IsCalendarDate(b.dueDate) THEN -1
                 ELSE IF ~IsCalendarDate(a.dueDate) /\ IsCalendarDate(b.dueDate) THEN 1
                 ELSE IF ~IsCalendarDate(a.dueDate) THEN byAge
                 ELSE IF CalendarDay(a.dueDate) < CalendarDay(b.dueDate) THEN -1
                 ELSE IF CalendarDay(a.dueDate) > CalendarDay(b.dueDate) THEN 1
                 ELSE byAge
    /\ \A i, j \in DOMAIN tasks :
         (last.board.cards[i].category = last.board.cards[j].category
            /\ last.board.compared[i][j] < 0)
         => ShownAt(i) < ShownAt(j)
    /\ ( /\ Len(tasks) = 3
         /\ <<tasks[1].priority, tasks[2].priority, tasks[3].priority>>
              = <<"high", "high", "medium">>
         /\ \A i \in 1..3 : IsCalendarDate(tasks[i].dueDate)
         /\ <<DaysAhead(tasks[1]), DaysAhead(tasks[2]), DaysAhead(tasks[3])>> = <<5, 2, 1>> )
       => last.board.buckets["soon"] = <<2, 1, 3>>

C17_Witness ==
  /\ last.op = "render"
  /\ Len(tasks) = 3
  /\ <<tasks[1].priority, tasks[2].priority, tasks[3].priority>> = <<"high", "high", "medium">>
  /\ \A i \in 1..3 : IsCalendarDate(tasks[i].dueDate)
  /\ <<DaysAhead(tasks[1]), DaysAhead(tasks[2]), DaysAhead(tasks[3])>> = <<5, 2, 1>>
  /\ tasks[1].createdAt < tasks[2].createdAt
  /\ last.board.buckets["soon"] = <<2, 1, 3>>

\* C18: the comparison is a strict weak ordering: no task precedes itself,
\* a precedes b exactly when b follows a, precedence is transitive, and so
\* is being tied.
C18_StrictWeakOrder ==
  last.op = "render" =>
    LET c == last.board.compared
    IN  /\ \A i \in DOMAIN tasks : c[i][i] = 0
        /\ \A i, j \in DOMAIN tasks : c[i][j] < 0 <=> c[j][i] > 0
        /\ \A i, j, k \in DOMAIN tasks : (c[i][j] < 0 /\ c[j][k] < 0) => c[i][k] < 0
        /\ \A i, j, k \in DOMAIN tasks : (c[i][j] = 0 /\ c[j][k] = 0) => c[i][k] = 0

\* a dated task, and two tied tasks of its priority, one with a missing and
\* one with an invalid due date, created at the same instant
C18_Witness ==
  /\ last.op = "render"
  /\ \E i, j, k \in DOMAIN tasks :
       /\ tasks[i].priority = tasks[j].priority /\ tasks[j].priority = tasks[k].priority
       /\ IsCalendarDate(tasks[i].dueDate)
       /\ tasks[j].dueDate = <<>>
       /\ tasks[k].dueDate # <<>> /\ ~IsCalendarDate(tasks[k].dueDate)
       /\ tasks[j].createdAt = tasks[k].createdAt
       /\ tasks[i].createdAt > tasks[j].createdAt
       /\ last.board.compared[i][j] < 0
       /\ last.board.compared[j][k] = 0
       /\ last.board.compared[i][k] < 0


\* C19: an update, toggle or delete that names an identifier no task of the
\* collection has leaves the collection as it was: nothing is added,
\* removed or modified, and no identifier is handed out.
C19_MissingIdIsNoop ==
  [][(last'.op \in {"update", "toggle", "delete"} /\ FindTask(last'.id) = 0)
       => (tasks' = tasks /\ nextId' = nextId)]_vars

\* the edit of a task that was deleted after the edit began has been
\* submitted, and the other task of the collection is as it was created
C19_Witness ==
  /\ last.op = "update"
  /\ ~last.found
  /\ last.id \in Ids
  /\ last.id < nextId
  /\ last.data.completed
  /\ tasks = <<KeptTask>>

\* C20: a submission with an empty title, an empty due date or a due date
\* that is no calendar date changes nothing in the collection, in create
\* mode and in edit mode: whenever a submission changes the collection, its
\* title is not empty and its due date is a calendar date.
C20_InvalidSubmitRejected ==
  [][LET Bad(d) == d.title = "" \/ d.dueDate = <<>> \/ ~IsCalendarDate(d.dueDate)
     IN  /\ (last'.op = "rejected" /\ Bad(last'.data)) => tasks' = tasks
         /\ (last'.op = "create" /\ nextId' # nextId) => ~Bad(tasks'[Len(tasks')])
         /\ (last'.op = "update" /\ tasks' # tasks) => ~Bad(last'.data)
         /\ \A d \in FormInputs : Bad(d) => Validate(d).ok = FALSE]_vars

\* the edit of a task is submitted with the 30th of February as due date
C20_Witness ==
  /\ last.op = "rejected"
  /\ last.message = "Due date is invalid."
  /\ last.id \in Ids
  /\ formTaskId = last.id
  /\ Len(tasks) = 2
  /\ tasks[2].id = last.id




\* C21: whatever the store holds, opening the page (load, normalize,
\* render) ends without a fault, and a store that is missing, unparseable
\* or no array gives the empty collection.
C21_OpenNeverFaults ==
  last.op = "open" =>
    /\ ~last.fault
    /\ ut.kind # "array" => tasks = <<>>


\* C22: a refresh tick, wherever it falls among the commands, changes no
\* field of any task and neither the members nor the order of the
\* collection; it only computes the board anew.
C22_TickChangesNoTask ==
  [][last'.op = "render" => (tasks' = tasks /\ nextId' = nextId)]_vars

\* a tick after a toggle of the created task, the three tasks on the board
C22_Witness ==
  /\ last.op = "render"
  /\ Len(tasks) = 3
  /\ tasks[3].completed
  /\ tasks[3].timeSpentMs > 0
  /\ last.board.buckets["completed"] = <<tasks[3].id>>


\* the board of a render shows every task due on the day of the render in
\* bucket today with Due today/warning while it is open, and in bucket
\* completed with Completed/done once it is completed
DueTodayShown ==
  last.op = "render" =>
    \A i \in DOMAIN tasks :
      (IsCalendarDate(tasks[i].dueDate) /\ DaysAhead(tasks[i]) = 0) =>
        LET card == last.board.cards[i]
        IN  IF tasks[i].completed
            THEN /\ card.category = "completed"
                 /\ card.deadline.text = "Completed" /\ card.deadline.cls = "done"
            ELSE /\ card.category = "today"
                 /\ card.deadline.text = "Due today" /\ card.deadline.cls = "warning"

\* the toggle that reopens a task sets activatedAt to its instant and
\* leaves timeSpentMs at its value just before
ReopenKeepsTime ==
  (last.op = "toggle" /\ last.target = STATUS_ACTIVE /\ last.res = ResStatus(STATUS_ACTIVE)) =>
    /\ ~LastTask.completed
    /\ LastTask.activatedAt = last.now
    /\ LastTask.timeSpentMs = last.before.timeSpentMs

\* the last command completed a task for the first time since its creation
FirstCompletion ==
  /\ last.op = "toggle"
  /\ last.target = STATUS_COMPLETED
  /\ last.res = ResStatus(STATUS_COMPLETED)
  /\ last.before.timeSpentMs = 0
  /\ last.before.activatedAt = LastTask.createdAt

\* C23 as stated: a task created open and due today is shown in today with
\* Due today/warning; toggled complete it is shown in completed with
\* Completed/done and has timeSpentMs > 0; toggled open again it is back in
\* today, activatedAt is the reopening instant and timeSpentMs is as before.
C23_ScenarioAsStated ==
  /\ DueTodayShown
  /\ FirstCompletion => LastTask.timeSpentMs > 0
  /\ ReopenKeepsTime

\* C23 amended: as stated, except that after the first completion
\* timeSpentMs is the time from the creation instant to the completion
\* instant, which is above 0 exactly when the clock has advanced in between.
C23_Scenario ==
  /\ DueTodayShown
  /\ FirstCompletion =>
       /\ LastTask.completed
       /\ LastTask.timeSpentMs =
            (IF last.now > LastTask.createdAt THEN last.now - LastTask.createdAt ELSE 0)
       /\ LastTask.timeSpentMs > 0 <=> last.now > LastTask.createdAt
  /\ ReopenKeepsTime

\* the created task, completed and reopened, is shown in bucket today again
C23_Witness ==
  /\ last.op = "render"
  /\ Len(tasks) = 3
  /\ tasks[3].id \in Ids
  /\ DaysAhead(tasks[3]) = 0
  /\ ~tasks[3].completed
  /\ tasks[3].timeSpentMs > 0
  /\ tasks[3].activatedAt > tasks[3].createdAt
  /\ last.board.cards[3].category = "today"


\* identifier id has been in the collection and is in it no more
Gone(id) == FindTask(id) = 0 /\ (id \in Ids => id < nextId)

\* C24: a delete leaves no task with the identifier, leaves every other
\* task as it was and in the order it was; and an identifier that is gone
\* stays gone through every later command and refresh.
C24_DeleteIsFinal ==
  [][/\ last'.op = "delete" =>
          LET keep == {i \in DOMAIN tasks : tasks[i].id # last'.id}
          IN  /\ Len(tasks') = Cardinality(keep)
              /\ \A i \in keep : tasks'[Cardinality({j \in keep : j <= i})] = tasks[i]
              /\ \A k \in DOMAIN tasks' : tasks'[k].id # last'.id
     /\ \A id \in LiveIds : Gone(id) => Gone(id)']_vars

\* the first of three tasks has been deleted
C24_Witness ==
  /\ last.op = "delete"
  /\ last.id = KeptId
  /\ Len(tasks) = 2
  /\ tasks[1] = LaterTask
  /\ tasks[2].id \in Ids
  /\ tasks[2].completed


\* C25: a task made by create and toggles, written to the store, read back
\* and normalized, is in the same bucket on every day and has the same
\* elapsed time at every instant as before.
C25_RoundTrip ==
  last.op = "reload" =>
    /\ Len(tasks) = Len(last.saved)
    /\ \A i \in DOMAIN tasks :
         /\ \A now \in BoardNows, zone \in Zones :
              GetCategory(tasks[i], now, zone) = GetCategory(last.saved[i], now, zone)
         /\ \A at \in 0..(MaxTime + MaxSpent) :
              CalcTimeSpentMs(tasks[i], at) = CalcTimeSpentMs(last.saved[i], at)

\* an open task with time on it and a running session has been reloaded
C25_Witness ==
  /\ last.op = "reload"
  /\ \E i \in DOMAIN tasks :
       /\ ~last.saved[i].completed
       /\ last.saved[i].timeSpentMs > 0
       /\ last.saved[i].activatedAt > 0
       /\ CalcTimeSpentMs(tasks[i], MaxTime + MaxSpent) > tasks[i].timeSpentMs


\* C26: an update or a toggle of one task keeps the length and the order of
\* the collection, keeps the id and the createdAt of every task, the one it
\* acts on included, and changes no field of any other task.
C26_UpdateToggleFrame ==
  [][last'.op \in {"update", "toggle"} =>
       /\ Len(tasks') = Len(tasks)
       /\ \A i \in DOMAIN tasks :
            /\ tasks'[i].id = tasks[i].id
            /\ tasks'[i].createdAt = tasks[i].createdAt
            /\ tasks[i].id # last'.id => tasks'[i] = tasks[i]]_vars

\* an edit has completed the last of three tasks, created later than the
\* other two
C26_Witness ==
  /\ last.op = "update"
  /\ last.found
  /\ last.flip
  /\ Len(tasks) = 3
  /\ tasks[3].id = last.id
  /\ tasks[3].completed
  /\ tasks[3].createdAt > tasks[1].createdAt


\* the place of a bucket on the way of an open task to its due date and past
Stage(category) ==
  IF category = "upcoming" THEN 1
  ELSE IF category = "soon" THEN 2
  ELSE IF category = "today" THEN 3
  ELSE 4

\* C27: over the renders of a page left alone, as the day advances, an open
\* task with a valid due date is never shown in an earlier bucket of
\* upcoming, soon, today, overdue than in a render before; it is shown in
\* today exactly on the day of its due date, in overdue on every day after
\* it; and the task is the same at every render.
C27_BucketAdvances ==
  \A j \in DOMAIN hist :
    LET t == hist[j].task
    IN  /\ t = tasks[1]
        /\ (~t.completed /\ IsCalendarDate(t.dueDate)) =>
             /\ hist[j].category \in {"upcoming", "soon", "today", "overdue"}
             /\ hist[j].category = "today"
                  <=> DayOf(hist[j].now) = CalendarDay(t.dueDate)
             /\ DayOf(hist[j].now) > CalendarDay(t.dueDate)
                  => hist[j].category = "overdue"
             /\ \A k \in 1..(j - 1) :
                  /\ DayOf(hist[k].now) <= DayOf(hist[j].now)
                  /\ Stage(hist[k].category) <= Stage(hist[j].category)

\* a task shown in soon, then in today, then in overdue on each of two
\* later days, where daylight saving ends in between
C27_Witness ==
  /\ Len(hist) = 4
  /\ ~tasks[1].completed
  /\ hist[1].zone.dstTo > DayOf(hist[1].now)
  /\ hist[1].category = "soon"
  /\ hist[2].category = "today"
  /\ hist[3].category = "overdue"
  /\ hist[4].category = "overdue"
  /\ DayOf(hist[4].now) > DayOf(hist[3].now)


\* C28: an edit that leaves the completed flag as it was leaves timeSpentMs
\* and completedAt of the task as they were, and activatedAt too when it is
\* an instant; activatedAt changes only on an open task that had none, and
\* then to an instant read from the clock.
C28_EditKeepsMetrics ==
  [][(last'.op = "update" /\ last'.found /\ ~last'.flip) =>
       LET i == FindTask(last'.id)
           t == tasks[i]
           u == tasks'[i]
       IN  /\ u.completed = t.completed
           /\ u.timeSpentMs = t.timeSpentMs
           /\ u.completedAt = t.completedAt
           /\ IsFiniteNumber(t.activatedAt) => u.activatedAt = t.activatedAt
           /\ u.activatedAt # t.activatedAt =>
                /\ ~t.completed
                /\ ~IsFiniteNumber(t.activatedAt)
                /\ u.activatedAt \in Instants]_vars

\* the priority of an open task was edited: the task has time on it from an
\* earlier session, and its running session began later than it was created
C28_Witness ==
  /\ last.op = "update"
  /\ last.found
  /\ ~last.flip
  /\ LET u == tasks[FindTask(last.id)]
     IN  /\ ~u.completed
         /\ u.priority = "low"
         /\ u.timeSpentMs > 0
         /\ u.activatedAt > u.createdAt
         /\ u.completedAt = Null


\* C29: at every render, for every task, the bucket is completed exactly
\* when the urgency class of the label is done, overdue exactly when the
\* class is overdue, today exactly when the text is Due today; and a task
\* labelled Due date invalid is in bucket upcoming.
C29_BucketMatchesLabel ==
  last.op = "render" =>
    \A i \in DOMAIN tasks :
      LET c == last.board.cards[i].category
          info == last.board.cards[i].deadline
      IN  /\ c = "completed" <=> info.cls = "done"
          /\ c = "overdue" <=> info.cls = "overdue"
          /\ c = "today" <=> info.text = "Due today"
          /\ info.text = "Due date invalid" => c = "upcoming"

\* an open task due on 1 November is shown late on 2 November, the two
\* midnights 25 hours apart: it is in overdue and labelled overdue by 1 day
C29_Witness ==
  /\ last.op = "render"
  /\ last.zone.dstTo = DayOf(last.now)
  /\ \E i \in DOMAIN tasks :
       /\ ~tasks[i].completed
       /\ tasks[i].dueDate = <<2026, 11, 1>>
       /\ last.board.cards[i].category = "overdue"
       /\ last.board.cards[i].deadline = Label("Overdue by", 1, "day", "overdue")

====
